---- MODULE Spec2Model ----
(***************************************************************************)
(* The mock game engine of the werewolf arena client (mockGameEngine.ts):  *)
(* the state store (currentState, listeners), the one-second scheduler     *)
(* (startGameLoop / setInterval), advancePhase, resetGame and              *)
(* sendHumanAction.                                                        *)
(*                                                                         *)
(* JavaScript values are modelled as follows.  null / undefined ids are 0  *)
(* (player and timer ids are positive), an undefined vote_target is -1,    *)
(* winner null is the string "null".  The players array is a heap object:  *)
(* currentState.players is a reference into heap, because the shallow copy *)
(* { ...currentState } of broadcast shares it.  The logs array is replaced *)
(* by a new array on every addLog and never written in place, so it is a   *)
(* value.  A LogEntry keeps day, phase, speakerId, content and type; its   *)
(* random id and its Date.now() timestamp are not modelled.  A Player      *)
(* keeps id, isAlive, role and isHuman; name, suspicionScore and avatarUrl *)
(* are constants of the index and are not modelled.                        *)
(***************************************************************************)
EXTENDS Integers, Sequences, FiniteSets, TLC

\* ------------------------------------------------------------------ bounds
\* Largest day the scheduler is allowed to reach.
MaxDay == 2
\* Longest log list.
MaxLogs == 6
\* Most synthetic chatter entries in the log list.
MaxChatter == 1
\* Most decisions of the human player that left entries in the log list.
MaxDecisions == 1

\* ------------------------------------------------------- program constants
NumPlayers == 9
InitialTime == 30
DefaultResetTime == 10
AnnounceTime == 5
DiscussTime == 30
VoteTime == 15
NightTime == 10

Phase ==
  {"NIGHT_WOLF", "NIGHT_WITCH", "NIGHT_SEER", "NIGHT_HUNTER",
   "DAY_ANNOUNCE", "DAY_DISCUSS", "DAY_VOTE", "GAME_OVER"}

Role == {"WEREWOLF", "VILLAGER", "SEER", "WITCH", "HUNTER", "UNKNOWN"}

\* The callbacks that may be registered with subscribeToGame.
Callbacks == {"cbA", "cbB"}

\* The orders in which they may be registered.
ListenerLists == {<<>>, <<"cbB", "cbA">>}

\* The room ids startGameLoop is called with; "" is the call without one.
GameIds == {"", "live-1000"}

\* The decisions handed to sendHumanAction.
Decisions ==
  [natural_speech : {"", "hello"}, vote_target : {-1, 0, 2}, skill_target : {-1, 3}]

\* The decisions handed to sendHumanAction while the scheduler runs: with
\* and without speech, with and without a vote.
SampleDecisions == {d \in Decisions : d.vote_target # 0 /\ d.skill_target = -1}

VARIABLES
  currentState,  \* the GameState object
  heap,          \* players arrays by reference
  intervalId,    \* the module's intervalId; 0 is null
  timers,        \* the interval timers the runtime holds active
  listeners,     \* the Set of listeners, in insertion order
  deliveries,    \* the snapshots the last operation handed to listeners, in order
  lastOp,        \* the last operation that ran
  sent,          \* the decision the last operation handed to sendHumanAction
  panel          \* the state of the ActionPanel component

vars ==
  <<currentState, heap, intervalId, timers, listeners, deliveries, lastOp, sent, panel>>

\* sent when the last operation was not sendHumanAction.
NoDecision == [natural_speech |-> "", vote_target |-> -1, skill_target |-> -1]

\* useState('') for speech and target, useState(false) for isSubmitting; no
\* timeout is pending.
MountedPanel == [speech |-> "", target |-> "", isSubmitting |-> FALSE, pending |-> <<>>]

\* ------------------------------------------------------------ generatePlayers
\* The role list before the shuffle, by 0-based index.
BaseRoles ==
  [k \in 0..(NumPlayers - 1) |->
     IF k < 3 THEN "WEREWOLF"
     ELSE IF k < 6 THEN "VILLAGER"
     ELSE IF k = 6 THEN "SEER"
     ELSE IF k = 7 THEN "WITCH"
     ELSE "HUNTER"]

\* A swap that writes roles[j] to both places.
Swap_lossy(roles, i, j) == [roles EXCEPT ![i] = roles[j]]

\* [roles[i], roles[j]] = [roles[j], roles[i]]
Swap(roles, i, j) == [roles EXCEPT ![i] = roles[j], ![j] = roles[i]]

\* The Fisher-Yates loop from index i down to 1; draws[i] is the value of
\* Math.floor(Math.random() * (i + 1)) at index i.
RECURSIVE Shuffle(_, _, _)
Shuffle(roles, i, draws) ==
  IF i > 0 THEN Shuffle(Swap(roles, i, draws[i]), i - 1, draws) ELSE roles

generatePlayers(draws) ==
  LET roles == Shuffle(BaseRoles, NumPlayers - 1, draws)
  IN [k \in 1..NumPlayers |->
        [id |-> k, isAlive |-> TRUE, role |-> roles[k - 1], isHuman |-> (k = 1)]]

\* Every outcome of the draws of one shuffle: draws[i] \in 0..i.
AllDraws == (0..1) \X (0..2) \X (0..3) \X (0..4) \X (0..5) \X (0..6) \X (0..7) \X (0..8)

\* The draws resetGame is given where the shuffle is not what is examined:
\* every swap is with index 0.
SampleDraws == {<<0, 0, 0, 0, 0, 0, 0, 0>>}

\* ------------------------------------------------------------------ the store
\* The GameState literal of the initial state and of resetGame.
FreshState(ref) ==
  [day |-> 1, phase |-> "DAY_ANNOUNCE", players |-> ref, logs |-> <<>>,
   timeLeft |-> InitialTime, winner |-> "null", selfId |-> 1, sheriffId |-> 0]

\* A reference no live object has.
FreshRef(hp) == CHOOSE r \in 1..(Cardinality(DOMAIN hp) + 1) : r \notin DOMAIN hp

\* A broadcast that walks the listeners from the last to the first.
broadcast_reversed(st, ls) ==
  [k \in 1..Len(ls) |-> [listener |-> ls[Len(ls) + 1 - k], snapshot |-> st]]

\* listeners.forEach(l => l({ ...currentState })): one shallow copy per
\* listener, in insertion order.
broadcast(st, ls) == [k \in 1..Len(ls) |-> [listener |-> ls[k], snapshot |-> st]]

\* An addLog that puts the new entry first.
addLog_prepend(st, content, type, speakerId) ==
  [st EXCEPT !.logs = <<[day |-> st.day, phase |-> st.phase, speakerId |-> speakerId,
                         content |-> content, type |-> type]>> \o @]

\* currentState.logs = [...currentState.logs, newLog]
\* An addLog that appends the entry twice.
addLog_twice(st, content, type, speakerId) ==
  LET entry == [day |-> st.day, phase |-> st.phase, speakerId |-> speakerId,
                content |-> content, type |-> type]
  IN [st EXCEPT !.logs = @ \o <<entry, entry>>]

addLog(st, content, type, speakerId) ==
  [st EXCEPT !.logs = Append(@,
     [day |-> st.day, phase |-> st.phase, speakerId |-> speakerId,
      content |-> content, type |-> type])]

\* What a holder of a snapshot reads through it: its own fields, and the
\* players array its players field refers to.
View(snap, hp) == [fields |-> snap, players |-> hp[snap.players]]

ChatterCount(logs) ==
  Cardinality({k \in 1..Len(logs) : logs[k].type = "speech" /\ logs[k].speakerId # 1})

HumanCount(logs) == Cardinality({k \in 1..Len(logs) : logs[k].speakerId = 1})

\* The live heap after an operation: the array of currentState and the
\* arrays of the snapshots just delivered.
Collect(hp, st, ds) ==
  [r \in {st.players} \cup {ds[k].snapshot.players : k \in 1..Len(ds)} |-> hp[r]]

\* ------------------------------------------------------------------ advancePhase
\* players.findIndex(p => p.isAlive && Math.random() > 0.5), 1-based, 0 for
\* -1; coins is the set of indexes at which Math.random() > 0.5.
FindVictim(players, coins) ==
  LET hits == {k \in 1..Len(players) : players[k].isAlive /\ k \in coins}
  IN IF hits = {} THEN 0 ELSE CHOOSE k \in hits : \A m \in hits : k <= m

\* An elimination that brings the other players back.
Eliminate_revive(arr, victim) ==
  [k \in DOMAIN arr |-> [arr[k] EXCEPT !.isAlive = (k # victim)]]

\* currentState.players[victimIndex].isAlive = false
Eliminate(arr, victim) == [arr EXCEPT ![victim].isAlive = FALSE]

\* A day counter that is not incremented.
NextDay_same(day) == day

\* A day counter that is decremented.
NextDay_back(day) == day - 1

\* currentState.day += 1
NextDay(day) == day + 1

\* A default case that is missing: nextPhase keeps its initial value.
FallbackPhase_missing(phase) == phase

\* default: nextPhase = Phase.DAY_ANNOUNCE
FallbackPhase(phase) == "DAY_ANNOUNCE"

\* advancePhase on the world w = [state, heap, out]: out collects the
\* snapshots broadcast so far in the running operation.
\* An advancePhase that restarts the countdown of the phase it is in.
advancePhase_stuck(w, coins, ls) ==
  LET done == [w.state EXCEPT !.timeLeft = DefaultResetTime]
  IN [state |-> done, heap |-> w.heap, out |-> w.out \o broadcast(done, ls)]

\* An advancePhase that ends the game.
advancePhase_ends(w, coins, ls) ==
  LET done == [w.state EXCEPT !.phase = "GAME_OVER", !.winner = "VILLAGERS",
                              !.timeLeft = DefaultResetTime]
  IN [state |-> done, heap |-> w.heap, out |-> w.out \o broadcast(done, ls)]

advancePhase(w, coins, ls) ==
  LET st == w.state
      players == w.heap[st.players]
      victim == FindVictim(players, coins)
      voted ==
        IF victim # 0
        THEN [state |-> addLog(st, <<"Player", players[victim].id, "was voted out!">>, "alert", 0),
              heap |-> [w.heap EXCEPT ![st.players] = Eliminate(@, victim)]]
        ELSE [state |-> addLog(st, <<"No one was voted out.">>, "system", 0),
              heap |-> w.heap]
      r == CASE st.phase = "NIGHT_WOLF" ->
                  [state |-> addLog(st, <<"Dawn breaks. The village wakes up.">>, "system", 0),
                   heap |-> w.heap, nextPhase |-> "DAY_ANNOUNCE", resetTime |-> AnnounceTime]
             [] st.phase = "DAY_ANNOUNCE" ->
                  [state |-> addLog(st, <<"Last night was a peaceful night (Mock).">>, "system", 0),
                   heap |-> w.heap, nextPhase |-> "DAY_DISCUSS", resetTime |-> DiscussTime]
             [] st.phase = "DAY_DISCUSS" ->
                  [state |-> addLog(st, <<"Discussion ends. Please cast your votes.">>, "alert", 0),
                   heap |-> w.heap, nextPhase |-> "DAY_VOTE", resetTime |-> VoteTime]
             [] st.phase = "DAY_VOTE" ->
                  [state |-> [addLog(voted.state, <<"Night falls. Wolves are hunting...">>, "system", 0)
                                EXCEPT !.day = NextDay(@)],
                   heap |-> voted.heap, nextPhase |-> "NIGHT_WOLF", resetTime |-> NightTime]
             [] OTHER ->
                  [state |-> st, heap |-> w.heap, nextPhase |-> FallbackPhase(st.phase),
                   resetTime |-> DefaultResetTime]
      done == [r.state EXCEPT !.phase = r.nextPhase, !.timeLeft = r.resetTime]
  IN [state |-> done, heap |-> r.heap, out |-> w.out \o broadcast(done, ls)]

\* ------------------------------------------------------------------ timers
\* clearInterval(id): a timer that is not active, and null, are ignored.
\* A clearInterval that stops nothing.
clearInterval_none(id, active) == active

clearInterval(id, active) == active \ {id}

\* A startGameLoop that does not stop the running loop.
StopRunningLoop_skip(id, active) == active

\* if (intervalId) clearInterval(intervalId)
StopRunningLoop(id, active) == IF id # 0 THEN clearInterval(id, active) ELSE active

\* setInterval: a timer id no active timer has.
NewTimer(active) == CHOOSE t \in 1..(Cardinality(active) + 1) : t \notin active

\* ------------------------------------------------------------------ operations
\* subscribeToGame(callback): listeners.add(callback)
subscribeToGame(c) ==
  /\ listeners' = IF \E k \in 1..Len(listeners) : listeners[k] = c
                  THEN listeners ELSE Append(listeners, c)
  /\ deliveries' = <<>>
  /\ heap' = Collect(heap, currentState, <<>>)
  /\ lastOp' = "subscribeToGame"
  /\ sent' = NoDecision
  /\ UNCHANGED panel
  /\ UNCHANGED <<currentState, intervalId, timers>>

\* A deregistration that leaves the callback registered.
delete_keep(ls, c) == ls

\* listeners.delete(callback)
delete(ls, c) == SelectSeq(ls, LAMBDA x : x # c)

\* The function subscribeToGame returned: listeners.delete(callback).  A call
\* for a callback that is not registered changes nothing.
unsubscribe(c) ==
  /\ \E k \in 1..Len(listeners) : listeners[k] = c
  /\ listeners' = delete(listeners, c)
  /\ deliveries' = <<>>
  /\ heap' = Collect(heap, currentState, <<>>)
  /\ lastOp' = "unsubscribe"
  /\ sent' = NoDecision
  /\ UNCHANGED panel
  /\ UNCHANGED <<currentState, intervalId, timers>>

\* resetGame(isHuman) on the world: the new state, the heap with the new
\* players array, and the snapshots broadcast.
resetWorld(hp, draws, ls) ==
  LET ref == FreshRef(hp)
      st == FreshState(ref)
  IN [state |-> st, heap |-> [r \in DOMAIN hp \cup {ref} |->
                                 IF r = ref THEN generatePlayers(draws) ELSE hp[r]],
      out |-> broadcast(st, ls)]

resetGame(isHuman) ==
  \E draws \in SampleDraws :
    LET w == resetWorld(heap, draws, listeners)
    IN /\ timers' = clearInterval(intervalId, timers)
       /\ intervalId' = 0
       /\ currentState' = w.state
       /\ deliveries' = w.out
       /\ heap' = Collect(w.heap, w.state, w.out)
       /\ lastOp' = "resetGame"
       /\ sent' = NoDecision
       /\ UNCHANGED panel
       /\ UNCHANGED listeners

startGameLoop(gameId) ==
  \E draws \in SampleDraws :
    LET cleared == StopRunningLoop(intervalId, timers)
        w0 == [state |-> currentState, heap |-> heap, out |-> <<>>]
        w1 == IF gameId # "" THEN resetWorld(heap, draws, listeners) ELSE w0
        cleared2 == IF gameId # "" THEN clearInterval(intervalId, cleared) ELSE cleared
        s2 == addLog(w1.state, <<"Connected to Game Server...">>, "system", 0)
        s3 == addLog(s2, IF gameId # "" THEN <<"Joined Room:", gameId>>
                         ELSE <<"Game Initialized.">>, "system", 0)
        t == NewTimer(cleared2)
    IN /\ Len(s3.logs) <= MaxLogs
       /\ currentState' = s3
       /\ timers' = cleared2 \cup {t}
       /\ intervalId' = t
       /\ deliveries' = w1.out
       /\ heap' = Collect(w1.heap, s3, w1.out)
       /\ lastOp' = IF gameId # "" THEN "startGameLoop(gameId)" ELSE "startGameLoop()"
       /\ sent' = NoDecision
       /\ UNCHANGED panel
       /\ UNCHANGED listeners

\* The outcomes of the calls of Math.random() in findIndex: the set of
\* indexes at which Math.random() > 0.5.  It is only called in the
\* DAY_VOTE case of advancePhase, and only for a living player.
CoinOutcomes(st, hp) ==
  IF st.phase = "DAY_VOTE"
  THEN SUBSET {k \in 1..NumPlayers : hp[st.players][k].isAlive}
  ELSE {{}}

\* The outcomes of the chatter step of a tick: Math.random() > 0.8, the
\* index into aliveAgents.  The entry's content is one of the five phrases;
\* which one is not modelled (content "phrase").
\* A chatter step that lets any player speak, dead or human.
ChatterOutcomes_anyone(st, hp) ==
  {[speak |-> FALSE, speakerId |-> 0]} \cup
  IF st.phase = "DAY_DISCUSS"
  THEN {[speak |-> TRUE, speakerId |-> hp[st.players][k].id] : k \in 1..NumPlayers}
  ELSE {}

ChatterOutcomes(st, hp) ==
  LET aliveAgents == SelectSeq(hp[st.players], LAMBDA p : p.isAlive /\ ~p.isHuman)
  IN {[speak |-> FALSE, speakerId |-> 0]} \cup
     IF st.phase = "DAY_DISCUSS"
     THEN {[speak |-> TRUE, speakerId |-> aliveAgents[k].id] : k \in 1..Len(aliveAgents)}
     ELSE {}

\* A test that lets the countdown show 0 for a second.
Expired_late(timeLeft) == timeLeft < 0

\* if (currentState.timeLeft <= 0)
Expired(timeLeft) == timeLeft <= 0

\* The callback of setInterval, fired by the active timer t: what it does to
\* the store.
tickStore(t) ==
  /\ t \in timers
  /\ IF currentState.winner # "null"
     THEN /\ timers' = clearInterval(intervalId, timers)
          /\ deliveries' = <<>>
          /\ heap' = Collect(heap, currentState, <<>>)
          /\ lastOp' = "tick"
          /\ sent' = NoDecision
          /\ UNCHANGED <<currentState, intervalId, listeners>>
     ELSE LET s1 == [currentState EXCEPT !.timeLeft = @ - 1]
              w1 == [state |-> s1, heap |-> heap, out |-> <<>>]
          IN \E coins \in IF Expired(s1.timeLeft) THEN CoinOutcomes(s1, heap) ELSE {{}} :
               LET w2 == IF Expired(s1.timeLeft)
                         THEN advancePhase(w1, coins, listeners) ELSE w1
               IN \E chatter \in ChatterOutcomes(w2.state, w2.heap) :
                    LET s3 == IF chatter.speak
                              THEN addLog(w2.state, <<"phrase">>,
                                          "speech", chatter.speakerId)
                              ELSE w2.state
                        out == w2.out \o broadcast(s3, listeners)
                    IN /\ s3.day <= MaxDay
                       /\ Len(s3.logs) <= MaxLogs
                       /\ ChatterCount(s3.logs) <= MaxChatter
                       /\ currentState' = s3
                       /\ deliveries' = out
                       /\ heap' = Collect(w2.heap, s3, out)
                       /\ lastOp' = "tick"
                       /\ sent' = NoDecision
                       /\ UNCHANGED <<intervalId, timers, listeners>>

\* The callback of setInterval, fired by the active timer t.
tick(t) == tickStore(t) /\ UNCHANGED panel

\* A sendHumanAction that drops the speech.
HumanActionLogs_silent(st, decision) ==
  IF decision.vote_target # -1 /\ decision.vote_target # 0
  THEN addLog(st, <<"(Mock Backend) Received vote against Player",
                    decision.vote_target>>, "action", 1)
  ELSE st

\* The body of sendHumanAction on the state st: if (decision.natural_speech)
\* and if (decision.vote_target), which undefined and 0 both fail.
HumanActionLogs(st, decision) ==
  LET s1 == IF decision.natural_speech # ""
            THEN addLog(st, <<decision.natural_speech>>, "speech", 1)
            ELSE st
  IN IF decision.vote_target # -1 /\ decision.vote_target # 0
     THEN addLog(s1, <<"(Mock Backend) Received vote against Player",
                       decision.vote_target>>, "action", 1)
     ELSE s1

sendHumanAction(decision) ==
  LET s2 == HumanActionLogs(currentState, decision)
  IN /\ Len(s2.logs) <= MaxLogs
     /\ s2 # currentState => HumanCount(currentState.logs) < MaxDecisions
     /\ currentState' = s2
     /\ deliveries' = <<>>
     /\ heap' = Collect(heap, s2, <<>>)
     /\ lastOp' = "sendHumanAction"
     /\ sent' = decision
     /\ UNCHANGED panel
     /\ UNCHANGED <<intervalId, timers, listeners>>

\* ------------------------------------------------------------------ specifications
\* The state after the module is loaded, with the players array arr.
Loaded(arr) ==
  /\ currentState = FreshState(1)
  /\ heap = [r \in {1} |-> arr]
  /\ intervalId = 0
  /\ timers = {}
  /\ listeners = <<>>
  /\ deliveries = <<>>
  /\ lastOp = "init"
  /\ sent = NoDecision
  /\ panel = MountedPanel

Init == \E draws \in SampleDraws : Loaded(generatePlayers(draws))

\* The store and the scheduler.
NextStore ==
  \/ \E gameId \in GameIds : startGameLoop(gameId)
  \/ \E isHuman \in BOOLEAN : resetGame(isHuman)
  \/ \E t \in timers : tick(t)
  \/ \E decision \in SampleDecisions : sendHumanAction(decision)

\* The store, the scheduler and the subscribers.
Next ==
  \/ NextStore
  \/ \E c \in Callbacks : subscribeToGame(c)
  \/ \E c \in Callbacks : unsubscribe(c)

Spec == Init /\ [][Next]_vars

SpecStore == Init /\ [][NextStore]_vars

\* generatePlayers on every outcome of the shuffle: the module is loaded with
\* any of them, and then reset and restarted.
InitRoster == \E draws \in AllDraws : Loaded(generatePlayers(draws))

NextRoster ==
  \/ \E isHuman \in BOOLEAN : resetGame(isHuman)
  \/ \E gameId \in GameIds : startGameLoop(gameId)

SpecRoster == InitRoster /\ [][NextRoster]_vars

\* advancePhase and one tick on every phase, day, countdown and set of
\* living players; the timer is running and the callbacks are registered.
InitAdvance ==
  \E phase \in Phase, day \in 1..MaxDay, timeLeft \in 1..2,
     alive \in [1..NumPlayers -> BOOLEAN], draws \in SampleDraws, ls \in ListenerLists :
    /\ currentState = [FreshState(1) EXCEPT !.phase = phase, !.day = day,
                                            !.timeLeft = timeLeft]
    /\ heap = [r \in {1} |->
                [k \in 1..NumPlayers |->
                   [generatePlayers(draws)[k] EXCEPT !.isAlive = alive[k]]]]
    /\ intervalId = 1
    /\ timers = {1}
    /\ listeners = ls
    /\ deliveries = <<>>
    /\ lastOp = "init"
    /\ sent = NoDecision
    /\ panel = MountedPanel

\* advancePhase() called on its own.
advancePhaseCall ==
  /\ lastOp = "init"
  /\ \E coins \in CoinOutcomes(currentState, heap) :
       LET w == advancePhase([state |-> currentState, heap |-> heap, out |-> <<>>],
                             coins, listeners)
       IN /\ currentState' = w.state
          /\ deliveries' = w.out
          /\ heap' = Collect(w.heap, w.state, w.out)
          /\ lastOp' = "advancePhase"
          /\ sent' = NoDecision
          /\ UNCHANGED panel
          /\ UNCHANGED <<intervalId, timers, listeners>>

\* The first tick of the timer.
firstTick == lastOp = "init" /\ \E t \in timers : tick(t)

\* sendHumanAction(decision) in the phase the game is in.
firstSend == lastOp = "init" /\ \E decision \in Decisions : sendHumanAction(decision)

NextAdvance ==
  \/ advancePhaseCall
  \/ firstTick
  \/ firstSend

SpecAdvance == InitAdvance /\ [][NextAdvance]_vars

\* The game some days on.  The phases are those the transition table cycles
\* through, the countdown is about to expire, and of the players dealt by
\* draws those of one of these sets are alive: all, none, the human player
\* alone, all but the human player, all but the werewolves.  The entries
\* and the days of the history are left out: the log list starts empty and
\* day at 1.
CyclePhases == {"DAY_ANNOUNCE", "DAY_DISCUSS", "DAY_VOTE", "NIGHT_WOLF"}

\* A game a win condition would have ended: nobody, or no werewolf, is alive.
DecidedSamples(dealt) ==
  {[k \in 1..NumPlayers |-> FALSE],
   [k \in 1..NumPlayers |-> dealt[k].role # "WEREWOLF"]}

AliveSamples(dealt) ==
  {[k \in 1..NumPlayers |-> TRUE],
   [k \in 1..NumPlayers |-> dealt[k].isHuman],
   [k \in 1..NumPlayers |-> ~dealt[k].isHuman]} \cup DecidedSamples(dealt)

Running(phase, timeLeft, dealt, alive, ls) ==
  /\ currentState = [FreshState(1) EXCEPT !.phase = phase, !.timeLeft = timeLeft]
  /\ heap = [r \in {1} |-> [k \in 1..NumPlayers |-> [dealt[k] EXCEPT !.isAlive = alive[k]]]]
  /\ intervalId = 1
  /\ timers = {1}
  /\ listeners = ls
  /\ deliveries = <<>>
  /\ lastOp = "init"
  /\ sent = NoDecision
  /\ panel = MountedPanel

InitLoop ==
  \E phase \in CyclePhases, timeLeft \in 1..2, draws \in SampleDraws, ls \in ListenerLists :
    \E alive \in AliveSamples(generatePlayers(draws)) :
      Running(phase, timeLeft, generatePlayers(draws), alive, ls)

\* The scheduler running on.
NextLoop == \E t \in timers : tick(t)

SpecLoop == InitLoop /\ [][NextLoop]_vars

\* The scheduler running on for ever in a game a win condition would have
\* ended: setInterval fires the callback every second while the timer is
\* active.
InitFair ==
  \E phase \in CyclePhases, draws \in SampleDraws :
    \E alive \in DecidedSamples(generatePlayers(draws)) :
      Running(phase, 1, generatePlayers(draws), alive, <<>>)

SpecFair == InitFair /\ [][NextLoop]_vars /\ WF_vars(\E t \in timers : tick(t))

\* The store from the state the module is loaded in and from the game some
\* days on.
InitGame ==
  \/ Init
  \/ \E phase \in CyclePhases, draws \in SampleDraws :
       \E alive \in DecidedSamples(generatePlayers(draws)) :
         Running(phase, 1, generatePlayers(draws), alive, <<>>)

SpecGame == InitGame /\ [][NextStore]_vars

\* ------------------------------------------------------------------ ActionPanel
\* The panel is rendered with the gameState of Arena, the snapshot of the
\* last broadcast.  It reads phase, selfId and the players array of it,
\* which the snapshot shares with the store; sendHumanAction, the one
\* operation that does not broadcast, changes neither.

\* The value of an option of the select: the player's id as a string.
OptionValues == <<"1", "2", "3", "4", "5", "6", "7", "8", "9">>

\* parseInt(target) of a value of the select.
parseInt(str) == CHOOSE k \in 1..Len(OptionValues) : OptionValues[k] = str

\* What the user types, and the players the user picks from.
SpeechTexts == {"", "hello"}

TargetPicks == {2}

\* gameState.players.find(p => p.id === gameState.selfId)?.isAlive
isTurn ==
  \E k \in 1..NumPlayers :
    /\ heap[currentState.players][k].id = currentState.selfId
    /\ heap[currentState.players][k].isAlive

canSpeak == currentState.phase \in {"DAY_DISCUSS", "DAY_ANNOUNCE"}

canVote == currentState.phase = "DAY_VOTE"

\* An operation of the panel leaves the store as it is.
PanelFrame(op) ==
  /\ deliveries' = <<>>
  /\ heap' = Collect(heap, currentState, <<>>)
  /\ lastOp' = op
  /\ sent' = NoDecision
  /\ UNCHANGED <<currentState, intervalId, timers, listeners>>

\* onChange of the textarea: the panel is rendered and the speech input
\* takes pointer events.
setSpeech(text) ==
  /\ isTurn
  /\ canSpeak
  /\ text # panel.speech
  /\ panel' = [panel EXCEPT !.speech = text]
  /\ PanelFrame("setSpeech")

\* onChange of the select: the panel is rendered, the target input takes
\* pointer events, and the option is "" or that of a living other player.
setTarget(value) ==
  /\ isTurn
  /\ canVote
  /\ value # panel.target
  /\ \/ value = ""
     \/ \E k \in TargetPicks :
          /\ value = OptionValues[heap[currentState.players][k].id]
          /\ heap[currentState.players][k].isAlive
          /\ heap[currentState.players][k].id # currentState.selfId
  /\ panel' = [panel EXCEPT !.target = value]
  /\ PanelFrame("setTarget")

\* A click on the button, which is rendered and not disabled: handleSubmit.
\* The callback of setTimeout keeps the speech and the target of this render.
handleSubmit ==
  /\ isTurn
  /\ ~panel.isSubmitting
  /\ canSpeak \/ canVote
  /\ panel' = IF panel.speech = "" /\ panel.target = ""
              THEN panel
              ELSE [panel EXCEPT !.isSubmitting = TRUE,
                                 !.pending = <<[speech |-> panel.speech,
                                                target |-> panel.target,
                                                ticked |-> FALSE]>>]
  /\ PanelFrame("handleSubmit")

\* The decision the callback of setTimeout builds.
PanelDecision(closure) ==
  [natural_speech |-> closure.speech,
   vote_target |-> IF closure.target # "" THEN parseInt(closure.target) ELSE -1,
   skill_target |-> -1]

\* The callback of setTimeout, 500 ms after the click: onAction, which is
\* sendHumanAction, and the three setters.
submitTimeout ==
  /\ panel.pending # <<>>
  /\ LET decision == PanelDecision(panel.pending[1])
         s2 == HumanActionLogs(currentState, decision)
     IN /\ Len(s2.logs) <= MaxLogs
        /\ s2 # currentState => HumanCount(currentState.logs) < MaxDecisions
        /\ currentState' = s2
        /\ deliveries' = <<>>
        /\ heap' = Collect(heap, s2, <<>>)
        /\ lastOp' = "sendHumanAction"
        /\ sent' = decision
        /\ panel' = [speech |-> "", target |-> "", isSubmitting |-> FALSE, pending |-> <<>>]
        /\ UNCHANGED <<intervalId, timers, listeners>>

\* A tick of the one-second timer; at most one falls into the 500 ms a
\* timeout is pending.
panelTick(t) ==
  /\ panel.pending # <<>> => ~panel.pending[1].ticked
  /\ tickStore(t)
  /\ panel' = IF panel.pending # <<>>
              THEN [panel EXCEPT !.pending[1].ticked = TRUE]
              ELSE panel

\* The arena in human mode, some days on: the loop runs, Arena's callback is
\* registered, the panel is mounted and the human player, player 1, is alive.
InitPanel ==
  \E phase \in CyclePhases, draws \in SampleDraws :
    \E alive \in {a \in AliveSamples(generatePlayers(draws)) : a[1]} :
      Running(phase, 1, generatePlayers(draws), alive, <<"cbA">>)

NextPanel ==
  \/ \E t \in timers : panelTick(t)
  \/ \E text \in SpeechTexts : setSpeech(text)
  \/ \E value \in {""} \cup {OptionValues[k] : k \in TargetPicks} : setTarget(value)
  \/ handleSubmit
  \/ submitTimeout

SpecPanel == InitPanel /\ [][NextPanel]_vars

\* ------------------------------------------------------------------ claims
logs == currentState.logs

players == heap[currentState.players]

IsPrefix(a, b) == Len(a) <= Len(b) /\ SubSeq(b, 1, Len(a)) = a

\* The operations that replace the state: resetGame, and startGameLoop with
\* a room id, which calls it.
Resetting == {"resetGame", "startGameLoop(gameId)"}

\* The listeners the deliveries ds went to, in order.
Receivers(ds) == [k \in 1..Len(ds) |-> ds[k].listener]

Registered(ls) == {ls[k] : k \in 1..Len(ls)}

\* How many snapshots of ds went to callback c.
Received(ds, c) == Cardinality({k \in 1..Len(ds) : ds[k].listener = c})

CountType(lg, type) == Cardinality({k \in 1..Len(lg) : lg[k].type = type})

CountContent(lg, content) == Cardinality({k \in 1..Len(lg) : lg[k].content = content})

\* C1 as stated: over every operation, reset included, the log list before
\* the operation is a prefix of the log list after it.
C1_LogNeverShrinks == [][IsPrefix(logs, logs')]_vars

\* C1, amended: every operation other than resetGame and startGameLoop with a
\* room id keeps the entries of the log list, in place and unchanged, and adds
\* new entries only at the end; resetGame leaves the log list empty.
C1_LogAppendOnlyBetweenResets ==
  [][/\ lastOp' \notin Resetting => IsPrefix(logs, logs')
     /\ lastOp' = "resetGame" => logs' = <<>>]_vars

\* C1: entries were appended by startGameLoop, by a phase advance and, in
\* DAY_DISCUSS, by sendHumanAction, the last one behind the others.
C1_Witness ==
  /\ lastOp = "sendHumanAction"
  /\ Len(logs) >= 4
  /\ logs[1].content = <<"Connected to Game Server...">>
  /\ logs[Len(logs) - 1].type = "system"
  /\ logs[Len(logs)].speakerId = 1
  /\ logs[Len(logs)].phase = "DAY_DISCUSS"

\* C2 as stated: over every operation, reset included, day does not decrease.
C2_DayNeverDecreases == [][currentState'.day >= currentState.day]_vars

\* C2, amended: day does not decrease over any operation other than resetGame
\* and startGameLoop with a room id, which set it back to 1.
C2_DayMonotoneBetweenResets ==
  [][/\ lastOp' \notin Resetting => currentState'.day >= currentState.day
     /\ lastOp' \in Resetting => currentState'.day = 1]_vars

\* C2: the scheduler has incremented day.
C2_Witness == lastOp = "tick" /\ currentState.day = 2

\* C3 as stated: a tick and a reset each hand exactly one snapshot to every
\* registered listener, in registration order.
C3_OneSnapshotPerTick ==
  lastOp \in {"tick", "resetGame"} => Receivers(deliveries) = listeners

\* C3, amended: a reset, and a tick that does not advance the phase, hand
\* exactly one snapshot to every registered listener, in registration order;
\* a tick that advances the phase hands every registered listener exactly
\* two, in two passes in registration order (advancePhase's and the tick's
\* own); the last snapshot of every listener is a copy of the state the
\* operation leaves.
C3_BroadcastPerOperation ==
  [][/\ lastOp' = "resetGame" => Receivers(deliveries') = listeners
     /\ lastOp' = "tick" =>
          Receivers(deliveries') =
            IF currentState'.phase # currentState.phase
            THEN listeners \o listeners ELSE listeners
     /\ lastOp' \in {"tick", "resetGame"} =>
          \A k \in 1..Len(listeners) :
            deliveries'[Len(deliveries') - Len(listeners) + k].snapshot = currentState']_vars

\* C3: a tick advanced the phase with two listeners registered, and each got
\* two snapshots.
C3_Witness ==
  /\ lastOp = "tick"
  /\ Len(listeners) = 2
  /\ Len(deliveries) = 4

\* C4 as stated: an operation that appends to the log list hands every
\* registered listener a snapshot that holds the new entries.
C4_AppendBroadcasts ==
  [][(lastOp' \notin Resetting /\ Len(logs') > Len(logs)) =>
       \A c \in Registered(listeners) :
         \E k \in 1..Len(deliveries') :
           /\ deliveries'[k].listener = c
           /\ deliveries'[k].snapshot.logs = logs']_vars

\* C5 as stated: what a listener reads through a snapshot it was handed is
\* the same after the next operation.  (An array that is no longer in the
\* heap is referenced by nothing the store writes.)
C5_SnapshotImmutable ==
  [][\A k \in 1..Len(deliveries) :
       deliveries[k].snapshot.players \in DOMAIN heap' =>
         View(deliveries[k].snapshot, heap') = View(deliveries[k].snapshot, heap)]_vars

\* C6: at most one interval timer is active, and it is the one intervalId
\* names, so at most one tick fires per second.
C6_AtMostOneTimer ==
  /\ Cardinality(timers) <= 1
  /\ timers # {} => timers = {intervalId}

\* C6: startGameLoop was called a second time, without a reset, while the
\* first loop was running.
C6_Witness ==
  /\ lastOp = "startGameLoop()"
  /\ CountContent(logs, <<"Connected to Game Server...">>) = 2
  /\ timers = {intervalId}

\* C7: a call of a deregistration function removes its callback and no other
\* from the listeners; no operation hands a snapshot to a callback that is
\* not registered; every operation that broadcasts hands every registered
\* listener the same number of snapshots, at least one.
C7_UnsubscribeStopsDelivery ==
  [][/\ lastOp' = "unsubscribe" =>
          \E c \in Registered(listeners) :
            /\ c \notin Registered(listeners')
            /\ listeners' = SelectSeq(listeners, LAMBDA x : x # c)
     /\ \A c \in Callbacks \ Registered(listeners') : Received(deliveries', c) = 0
     /\ \A c, d \in Registered(listeners') :
          Received(deliveries', c) = Received(deliveries', d)
     /\ lastOp' \in {"tick", "resetGame", "startGameLoop(gameId)"} =>
          \A c \in Registered(listeners') : Received(deliveries', c) >= 1]_vars

\* C7: a callback has deregistered and another one is still registered.
C7_Witness == lastOp = "unsubscribe" /\ Len(listeners) = 1

\* The successor and the countdown the transition table gives.
TableSuccessor(phase) ==
  CASE phase = "NIGHT_WOLF" -> "DAY_ANNOUNCE"
    [] phase = "DAY_ANNOUNCE" -> "DAY_DISCUSS"
    [] phase = "DAY_DISCUSS" -> "DAY_VOTE"
    [] phase = "DAY_VOTE" -> "NIGHT_WOLF"
    [] OTHER -> "DAY_ANNOUNCE"

\* C8: advancePhase moves every phase to the successor of the table, with
\* the countdown and the log entry of the table, and never leaves the phase
\* as it is; a tick that finds the countdown at 1 in DAY_ANNOUNCE of day 1
\* leaves DAY_DISCUSS, 30 and one more system entry.
C8_TransitionTable ==
  [][/\ lastOp' = "advancePhase" =>
          /\ currentState'.phase = TableSuccessor(currentState.phase)
          /\ currentState'.phase # currentState.phase
          /\ currentState.phase = "NIGHT_WOLF" =>
               /\ currentState'.timeLeft = 5
               /\ Len(logs') = Len(logs) + 1
               /\ logs'[Len(logs')].type = "system"
          /\ currentState.phase = "DAY_ANNOUNCE" =>
               /\ currentState'.timeLeft = 30
               /\ Len(logs') = Len(logs) + 1
               /\ logs'[Len(logs')].type = "system"
          /\ currentState.phase = "DAY_DISCUSS" =>
               /\ currentState'.timeLeft = 15
               /\ Len(logs') = Len(logs) + 1
               /\ logs'[Len(logs')].type = "alert"
          /\ currentState.phase = "DAY_VOTE" => currentState'.timeLeft = 10
     /\ (/\ lastOp' = "tick"
         /\ currentState.phase = "DAY_ANNOUNCE"
         /\ currentState.day = 1
         /\ currentState.timeLeft = 1) =>
          /\ currentState'.phase = "DAY_DISCUSS"
          /\ currentState'.timeLeft = 30
          /\ CountType(logs', "system") = CountType(logs, "system") + 1]_vars

\* C8: advancePhase has run on one of the four phases without a case of
\* their own.
C8_Witness ==
  /\ lastOp = "advancePhase"
  /\ currentState.phase = "DAY_ANNOUNCE"
  /\ currentState.timeLeft = 10

\* C9: the transition from DAY_VOTE to NIGHT_WOLF adds exactly 1 to day,
\* whether or not a player is voted out, and no other phase advance, no other
\* tick and no sendHumanAction, with the log entries they append, changes day.
C9_DayIncrement ==
  [][lastOp' \in {"tick", "advancePhase", "sendHumanAction"} =>
       currentState'.day =
         IF currentState.phase = "DAY_VOTE" /\ currentState'.phase = "NIGHT_WOLF"
         THEN currentState.day + 1 ELSE currentState.day]_vars

\* C9: the countdown of the vote of day 1 has expired, a player was voted
\* out, and the night of day 2 has begun.
C9_Witness ==
  /\ lastOp = "tick"
  /\ currentState.phase = "NIGHT_WOLF"
  /\ currentState.day = 2
  /\ Len(logs) = 2
  /\ \E k \in 1..NumPlayers :
       /\ ~players[k].isAlive
       /\ logs[1].content = <<"Player", k, "was voted out!">>

\* C10: the roster of the state has 9 players with the ids 1..9, all alive,
\* 3 werewolves, 3 villagers, one seer, one witch and one hunter, and
\* exactly one human player.
C10_Roster ==
  /\ DOMAIN players = 1..9
  /\ \A k \in 1..9 : players[k].id = k /\ players[k].isAlive
  /\ Cardinality({k \in 1..9 : players[k].role = "WEREWOLF"}) = 3
  /\ Cardinality({k \in 1..9 : players[k].role = "VILLAGER"}) = 3
  /\ Cardinality({k \in 1..9 : players[k].role = "SEER"}) = 1
  /\ Cardinality({k \in 1..9 : players[k].role = "WITCH"}) = 1
  /\ Cardinality({k \in 1..9 : players[k].role = "HUNTER"}) = 1
  /\ Cardinality({k \in 1..9 : players[k].isHuman}) = 1

\* C10: a reset has dealt the roles, and not in the order of the list.
C10_Witness ==
  /\ lastOp = "resetGame"
  /\ players[9].role # "HUNTER"

\* C11: resetGame leaves day 1, DAY_ANNOUNCE, countdown 30, an empty log
\* list, no winner and a roster of living players; it leaves no timer
\* active and intervalId null, and hands every registered listener the new
\* state; while no timer is active no tick runs, and only startGameLoop
\* makes one active.
C11_ResetState ==
  [][/\ lastOp' = "resetGame" =>
          /\ currentState'.day = 1
          /\ currentState'.phase = "DAY_ANNOUNCE"
          /\ currentState'.timeLeft = 30
          /\ logs' = <<>>
          /\ currentState'.winner = "null"
          /\ \A k \in 1..NumPlayers : players'[k].isAlive
          /\ timers' = {}
          /\ intervalId' = 0
          /\ Receivers(deliveries') = listeners'
          /\ \A k \in 1..Len(deliveries') : deliveries'[k].snapshot = currentState'
     /\ timers = {} => lastOp' # "tick"
     /\ (timers = {} /\ lastOp' \notin {"startGameLoop()", "startGameLoop(gameId)"}) =>
          timers' = {}]_vars

\* C11: a game with two listeners was reset after an earlier reset.
C11_Witness ==
  /\ lastOp = "resetGame"
  /\ Len(deliveries) = 2
  /\ currentState.players = 1
  /\ timers = {}

\* The entries an operation appended to the log list.
Appended(before, after) == SubSeq(after, Len(before) + 1, Len(after))

\* What sendHumanAction leaves for the decision d when the vote target
\* counts as given under the condition given: the entries are appended, at
\* most two, all of player selfId; one speech entry iff the speech is not
\* empty, then one action entry iff the vote target is given; nothing else
\* of the state changes, and the empty decision changes nothing.
SubmitEffect(d, given, st, st2, ps, ps2) ==
  LET new == Appended(st.logs, st2.logs)
      speech == IF d.natural_speech # "" THEN 1 ELSE 0
      vote == IF given THEN 1 ELSE 0
  IN /\ IsPrefix(st.logs, st2.logs)
     /\ Len(new) <= 2
     /\ Len(new) = speech + vote
     /\ \A k \in 1..Len(new) : new[k].speakerId = st.selfId
     /\ speech = 1 => new[1].type = "speech" /\ new[1].content = <<d.natural_speech>>
     /\ vote = 1 => new[Len(new)].type = "action"
     /\ [st2 EXCEPT !.logs = st.logs] = st
     /\ ps2 = ps
     /\ (d.natural_speech = "" /\ d.vote_target = -1) => st2 = st

\* C12 as stated: the action entry is appended if and only if the decision
\* has a vote target.
C12_VoteEntryIffTarget ==
  [][lastOp' = "sendHumanAction" =>
       SubmitEffect(sent', sent'.vote_target # -1,
                    currentState, currentState', players, players')]_vars

\* C12, amended: sendHumanAction appends at most two entries, all of the
\* human player: one speech entry iff the speech is not empty, followed by
\* one action entry iff the vote target is given and is not 0; it changes
\* nothing else, and the empty decision changes nothing.
C12_SubmitEntries ==
  [][lastOp' = "sendHumanAction" =>
       SubmitEffect(sent', sent'.vote_target \notin {-1, 0},
                    currentState, currentState', players, players')]_vars

\* C12: a decision with speech and a vote target has left its two entries.
C12_Witness ==
  /\ lastOp = "sendHumanAction"
  /\ sent.natural_speech = "hello"
  /\ sent.vote_target = 2
  /\ Len(logs) = 2
  /\ logs[1].type = "speech"
  /\ logs[2].type = "action"

\* C13 as stated: one call of sendHumanAction makes the log list grow by at
\* most one entry.
C13_AtMostOneEntry ==
  [][lastOp' = "sendHumanAction" => Len(logs') <= Len(logs) + 1]_vars

\* C13, amended: the decision is not stored, and it is translated into
\* zero, one or two entries: one call of sendHumanAction makes the log list
\* grow by at most two entries, by two exactly when the decision has speech
\* and a vote target other than 0; the new entries hold the speech and the
\* vote target and nothing else of the decision, and no other field of the
\* state changes.
C13_AtMostTwoEntries ==
  [][lastOp' = "sendHumanAction" =>
       LET new == Appended(logs, logs')
       IN /\ IsPrefix(logs, logs')
          /\ Len(new) <= 2
          /\ Len(new) = 2 <=>
               (sent'.natural_speech # "" /\ sent'.vote_target \notin {-1, 0})
          /\ \A k \in 1..Len(new) :
               new[k].content \in
                 {<<sent'.natural_speech>>,
                  <<"(Mock Backend) Received vote against Player", sent'.vote_target>>}
          /\ [currentState' EXCEPT !.logs = logs] = currentState]_vars

\* C13: a decision with speech, a vote target and a skill target has left
\* two entries.
C13_Witness ==
  /\ lastOp = "sendHumanAction"
  /\ sent.skill_target = 3
  /\ currentState.phase = "DAY_VOTE"
  /\ Len(logs) = 2

\* C14: in every state the store reaches, from the state the module is
\* loaded in and with nobody or no werewolf left alive, the phase is one of
\* DAY_ANNOUNCE, DAY_DISCUSS, DAY_VOTE, NIGHT_WOLF and winner is null.
C14_NeverEnds ==
  /\ currentState.phase \in {"DAY_ANNOUNCE", "DAY_DISCUSS", "DAY_VOTE", "NIGHT_WOLF"}
  /\ currentState.winner = "null"

\* C14: with no player alive the scheduler has gone on through a vote and
\* a night into the next day.
C14_Witness ==
  /\ lastOp = "tick"
  /\ \A k \in 1..NumPlayers : ~players[k].isAlive
  /\ currentState.phase = "DAY_ANNOUNCE"
  /\ currentState.day = 2
  /\ logs # <<>>
  /\ logs[1].content = <<"No one was voted out.">>

\* C15: a tick that finds the countdown above 1 takes 1 off it and leaves
\* the phase; a tick that finds it at 1 advances the phase once, to the
\* successor of the table, and leaves the countdown of the new phase; after
\* every tick, and in every snapshot it hands to a listener, the countdown
\* is at least 1 and at most 30.
C15_CountdownRange ==
  [][lastOp' = "tick" =>
       /\ currentState.timeLeft > 1 =>
            /\ currentState'.timeLeft = currentState.timeLeft - 1
            /\ currentState'.phase = currentState.phase
            /\ Receivers(deliveries') = listeners
       /\ currentState.timeLeft <= 1 =>
            /\ currentState'.phase = TableSuccessor(currentState.phase)
            /\ currentState'.timeLeft \in {5, 10, 15, 30}
            /\ Receivers(deliveries') = listeners \o listeners
       /\ currentState'.timeLeft \in 1..30
       /\ \A k \in 1..Len(deliveries') : deliveries'[k].snapshot.timeLeft \in 1..30]_vars

\* C15: the countdown of the night has expired and the listeners hold the
\* snapshots of the tick that advanced the phase.
C15_Witness ==
  /\ lastOp = "tick"
  /\ currentState.phase = "DAY_ANNOUNCE"
  /\ currentState.timeLeft = 5
  /\ Len(deliveries) = 4
  /\ deliveries[1].snapshot.timeLeft = 5

\* C16: an operation other than a reset keeps the players array, its size
\* and every player's id, role and human flag; it changes isAlive of at
\* most one player, from true to false, and only in the transition from
\* DAY_VOTE to NIGHT_WOLF.
C16_OnlyMarkedDead ==
  [][lastOp' \notin Resetting =>
       LET changed == {k \in 1..NumPlayers : players'[k] # players[k]}
       IN /\ currentState'.players = currentState.players
          /\ DOMAIN players' = DOMAIN players
          /\ \A k \in changed :
               /\ players[k].isAlive
               /\ players'[k] = [players[k] EXCEPT !.isAlive = FALSE]
          /\ Cardinality(changed) <= 1
          /\ changed # {} =>
               /\ currentState.phase = "DAY_VOTE"
               /\ currentState'.phase = "NIGHT_WOLF"]_vars

\* C16: advancePhase has voted out one of several living players while
\* another player was dead already.
C16_Witness ==
  /\ lastOp = "advancePhase"
  /\ currentState.phase = "NIGHT_WOLF"
  /\ Len(logs) = 2
  /\ \E k, j, m \in 1..NumPlayers :
       /\ logs[1].content = <<"Player", k, "was voted out!">>
       /\ ~players[k].isAlive
       /\ j # k /\ ~players[j].isAlive
       /\ players[m].isAlive

\* C17: a tick appends at most one speech entry, behind the entries of its
\* phase advance; it appends one only if it leaves the phase DAY_DISCUSS,
\* the entry is stamped DAY_DISCUSS, and its speaker is a player who is
\* alive and not human; with no such player no speech entry is appended.
C17_ChatterInDiscussion ==
  [][lastOp' = "tick" =>
       LET new == Appended(logs, logs')
           chat == {k \in 1..Len(new) : new[k].type = "speech"}
           agents == {k \in 1..NumPlayers : players'[k].isAlive /\ ~players'[k].isHuman}
       IN /\ Cardinality(chat) <= 1
          /\ \A k \in chat :
               /\ k = Len(new)
               /\ currentState'.phase = "DAY_DISCUSS"
               /\ new[k].phase = "DAY_DISCUSS"
               /\ \E a \in agents : players'[a].id = new[k].speakerId
          /\ agents = {} => chat = {}
          /\ currentState'.phase # "DAY_DISCUSS" => chat = {}]_vars

\* C17: the tick that advanced DAY_ANNOUNCE to DAY_DISCUSS has appended
\* the chatter of a living agent behind the entry of the advance.
C17_Witness ==
  /\ lastOp = "tick"
  /\ Len(logs) = 2
  /\ logs[1].phase = "DAY_ANNOUNCE"
  /\ logs[2].type = "speech"
  /\ logs[2].phase = "DAY_DISCUSS"
  /\ \E k \in 1..NumPlayers : ~players[k].isAlive

\* C18 as stated: a decision handed to sendHumanAction has a vote target
\* only in DAY_VOTE and speech only in DAY_DISCUSS or DAY_ANNOUNCE, and is
\* handed over only while the human player is alive; every action entry is
\* stamped DAY_VOTE.
C18_PhaseLegality ==
  /\ lastOp = "sendHumanAction" =>
       /\ sent.vote_target # -1 => currentState.phase = "DAY_VOTE"
       /\ sent.natural_speech # "" =>
            currentState.phase \in {"DAY_DISCUSS", "DAY_ANNOUNCE"}
       /\ \E k \in 1..NumPlayers :
            players[k].id = currentState.selfId /\ players[k].isAlive
  /\ \A k \in 1..Len(logs) : logs[k].type = "action" => logs[k].phase = "DAY_VOTE"

\* The bounds leave room for the scheduler to take the game out of the
\* phase it is in: for the chatter entries of the phase, for the entries of
\* the advance and for its day.
Room ==
  /\ Len(logs) + (MaxChatter - ChatterCount(logs))
       + (IF currentState.phase = "DAY_VOTE" THEN 2 ELSE 1) <= MaxLogs
  /\ currentState.phase = "DAY_VOTE" => currentState.day + 1 <= MaxDay

\* C19: with the timer firing every second and no reset, the timer stays
\* active, the phase changes only to the next of DAY_ANNOUNCE, DAY_DISCUSS,
\* DAY_VOTE, NIGHT_WOLF in this cyclic order, and from every state in which
\* the bounds leave room the game eventually leaves the phase it is in,
\* whoever is alive.
C19_PhaseAlwaysAdvances ==
  /\ [](timers = {intervalId})
  /\ [][currentState'.phase # currentState.phase =>
          /\ currentState.phase \in {"DAY_ANNOUNCE", "DAY_DISCUSS", "DAY_VOTE", "NIGHT_WOLF"}
          /\ currentState'.phase = TableSuccessor(currentState.phase)]_vars
  /\ (currentState.phase = "DAY_ANNOUNCE" /\ Room) ~> (currentState.phase = "DAY_DISCUSS")
  /\ (currentState.phase = "DAY_DISCUSS" /\ Room) ~> (currentState.phase = "DAY_VOTE")
  /\ (currentState.phase = "DAY_VOTE" /\ Room) ~> (currentState.phase = "NIGHT_WOLF")
  /\ (currentState.phase = "NIGHT_WOLF" /\ Room) ~> (currentState.phase = "DAY_ANNOUNCE")

\* C19: with no player alive the scheduler has taken the game once round
\* the four phases, and the timer is still active.
C19_Witness ==
  /\ currentState.phase = "DAY_ANNOUNCE"
  /\ Len(logs) = 5
  /\ logs[1].phase = "DAY_ANNOUNCE"
  /\ logs[5].phase = "NIGHT_WOLF"
  /\ \A k \in 1..NumPlayers : ~players[k].isAlive
  /\ timers # {}

====
